---- MODULE Spec2Model ----
(***************************************************************************)
(* A model of the breach-protocol crate: the Interner (interner.rs), the   *)
(* pattern matcher Sequence::is_matched (sequence.rs), the selection state *)
(* machine Matrix (matrix.rs, grid.rs) and the backtracking search         *)
(* BreachProtocol::solve (lib.rs).                                         *)
(*                                                                         *)
(* Indices are 0-based as in the source: coordinates range over            *)
(* 0..WIDTH-1 and 0..HEIGHT-1; a Vec is a TLA+ sequence, so element i of   *)
(* the Vec is the (i+1)-th element of the sequence.                        *)
(***************************************************************************)
EXTENDS Integers, Sequences, FiniteSets, TLC

VARIABLES
    \* ---- Interner<T> (interner.rs) ----
    store,        \* Interner.0, the backing Vec<T>
    gen,          \* number of insert/extend calls made so far
    ilast,        \* the last Interner call: operation, argument, store before, result
    \* ---- Sequence::is_matched (sequence.rs) ----
    items,        \* Sequence.items, the target pattern
    stream,       \* the token stream handed to is_matched
    matched,      \* the outcome of the call
    \* ---- Matrix<WIDTH, HEIGHT> (matrix.rs) ----
    WIDTH,        \* const generic parameter, fixed per instantiation
    HEIGHT,       \* const generic parameter, fixed per instantiation
    values,       \* Matrix.values
    chosen,       \* Matrix.chosen
    selections,   \* Matrix.selections
    active,       \* Matrix.active
    mlast,        \* the last Matrix call: operation, arguments, state before, result
    \* ---- BreachProtocol::solve (lib.rs) ----
    buffer_size,  \* BreachProtocol.buffer_size
    sequences,    \* the &[Sequence] argument of solve
    solutions,    \* the Vec<Solution> being built
    frames,       \* the call stack of solve_inner: one legal_selections() iterator per level
    pc,           \* position of the running call
    build         \* build profile: overflow checks on ("debug") or off ("release")

internerVars == <<store, gen, ilast>>
sequenceVars == <<items, stream, matched>>
matrixVars   == <<WIDTH, HEIGHT, values, chosen, selections, active, mlast>>
solveVars    == <<buffer_size, sequences, solutions, frames>>
vars == <<store, gen, ilast, items, stream, matched,
          WIDTH, HEIGHT, values, chosen, selections, active, mlast,
          buffer_size, sequences, solutions, frames, pc, build>>

----------------------------------------------------------------------------
\* Bounds of the model

MaxKey   == 2    \* Interner values have keys 1..MaxKey
MaxBatch == 2    \* longest batch handed to extend
MaxOps   == 3    \* number of insert/extend calls explored

Builds == {"debug", "release"}

\* Generic helpers on sequences
Last(s) == s[Len(s)]
Front(s) == SubSeq(s, 1, Len(s) - 1)
Range(s) == {s[i] : i \in 1..Len(s)}
SeqsUpTo(S, n) == UNION {[1..k -> S] : k \in 0..n}

----------------------------------------------------------------------------
\* Interner (interner.rs)

Keys == 1..MaxKey

\* A value of type T: `key` is what Ord/Eq compare, `gen` is incidental state
\* (the call that brought the value in) that Ord/Eq do not look at.
Entry(k, g) == [key |-> k, gen |-> g]

\* T::cmp
Cmp(a, b) == IF a.key < b.key THEN "Less" ELSE IF a.key > b.key THEN "Greater" ELSE "Equal"

\* slice::binary_search on a sorted Vec: Ok(any matching index) or Err(insertion point)
binary_search(s, v) ==
    LET hits == {i \in 0..(Len(s) - 1) : Cmp(s[i + 1], v) = "Equal"}
    IN IF hits # {}
       THEN [ok |-> TRUE, idxs |-> hits]
       ELSE [ok |-> FALSE, idxs |-> {Cardinality({i \in 1..Len(s) : Cmp(s[i], v) = "Less"})}]

\* A faulty Vec::insert: the value is pushed at the end
VecInsert_push(s, idx, v) == Append(s, v)

\* Vec::insert(idx, value)
VecInsert(s, idx, v) == SubSeq(s, 1, idx) \o <<v>> \o SubSeq(s, idx + 1, Len(s))

\* Interner::insert: the store after the call
insert_store(s, v) ==
    LET r == binary_search(s, v)
    IN IF r.ok THEN s ELSE VecInsert(s, CHOOSE i \in r.idxs : TRUE, v)

\* Interner::insert: the indices the returned token may carry
insert_idxs(s, v) == binary_search(s, v).idxs

\* Interner::get: the indices the returned token may carry, {} for None
get_idxs(s, v) == LET r == binary_search(s, v) IN IF r.ok THEN r.idxs ELSE {}

\* values.sort_unstable()
RECURSIVE sort_unstable(_)
sort_unstable(s) ==
    IF s = <<>> THEN <<>>
    ELSE LET rest == sort_unstable(Tail(s))
             n == Cardinality({i \in 1..Len(rest) : Cmp(rest[i], Head(s)) = "Less"})
         IN VecInsert(rest, n, Head(s))

\* the `while let (Some(left_item), Some(right_item))` loop of extend and the
\* two merged.extend calls that follow it
RECURSIVE merge(_, _, _)
merge(left, right, merged) ==
    IF left = <<>> \/ right = <<>>
    THEN merged \o left \o right
    ELSE LET c == Cmp(Head(left), Head(right))
             next == IF c = "Greater" THEN Head(right) ELSE Head(left)
             left2 == IF c = "Greater" THEN left ELSE Tail(left)
             right2 == IF c = "Less" THEN right ELSE Tail(right)
         IN IF merged # <<>> /\ Cmp(Last(merged), next) = "Equal"
            THEN merge(left2, right2, merged)
            ELSE merge(left2, right2, Append(merged, next))

\* Interner::extend: the store after the call
extend_store(s, batch) == merge(s, sort_unstable(batch), <<>>)

InitInterner ==
    /\ store = <<>>
    /\ gen = 0
    /\ ilast = [op |-> "new", arg |-> <<>>, pre |-> <<>>, idxs |-> {}]

Insert ==
    /\ gen < MaxOps
    /\ \E k \in Keys :
         LET v == Entry(k, gen + 1)
         IN /\ store' = insert_store(store, v)
            /\ ilast' = [op |-> "insert", arg |-> <<v>>, pre |-> store,
                         idxs |-> insert_idxs(store, v)]
    /\ gen' = gen + 1
    /\ UNCHANGED <<sequenceVars, matrixVars, solveVars, pc, build>>

Extend ==
    /\ gen < MaxOps
    /\ \E ks \in SeqsUpTo(Keys, MaxBatch) :
         LET batch == [i \in 1..Len(ks) |-> Entry(ks[i], gen + 1)]
         IN /\ store' = extend_store(store, batch)
            /\ ilast' = [op |-> "extend", arg |-> batch, pre |-> store, idxs |-> {}]
    /\ gen' = gen + 1
    /\ UNCHANGED <<sequenceVars, matrixVars, solveVars, pc, build>>

\* a caller calls get(value); the store is only read
Get ==
    /\ \E k \in Keys :
         LET v == Entry(k, gen)
         IN ilast' = [op |-> "get", arg |-> <<v>>, pre |-> store, idxs |-> get_idxs(store, v)]
    /\ UNCHANGED <<store, gen>>
    /\ UNCHANGED <<sequenceVars, matrixVars, solveVars, pc, build>>

----------------------------------------------------------------------------
\* Sequence::is_matched (sequence.rs)

NumTokens  == 2    \* tokens are the interned values 1..NumTokens
MaxPattern == 3    \* longest target pattern
MaxStream  == 4    \* longest token stream handed to is_matched

Tokens == 1..NumTokens

\* The outcome of a piece of code that may abort: a value, or a panic
Val(v) == [panic |-> FALSE, v |-> v]
Panic == [panic |-> TRUE, v |-> <<>>]

\* The `for sequence in 0..(sequences.len() - 1)` loop for the item at `index`,
\* run on the vector `cands` that already holds the candidate pushed for `index`.
\* `sequences[sequence] && ...` reads self.items[index - sequence] only when the
\* candidate is still true; that read aborts when index - sequence is not an
\* index of the pattern.
update(pattern, cands, index, item) ==
    IF \E o \in 0..(index - 1) : cands[o + 1] /\ (index - o) >= Len(pattern)
    THEN Panic
    ELSE Val([p \in 1..Len(cands) |->
                IF p - 1 < index
                THEN (IF cands[p] THEN pattern[(index - (p - 1)) + 1] = item ELSE FALSE)
                ELSE cands[p]])

\* The `for (index, item) in iter.into_iter().enumerate()` loop, from `index` on.
\* self.items[0] aborts on an empty pattern.
RECURSIVE scan(_, _, _, _)
scan(pattern, strm, index, cands) ==
    IF index >= Len(strm) THEN Val(cands)
    ELSE IF pattern = <<>> THEN Panic
    ELSE LET item == strm[index + 1]
             pushed == Append(cands, pattern[1] = item)
             updated == update(pattern, pushed, index, item)
         IN IF updated.panic THEN Panic
            ELSE scan(pattern, strm, index + 1, updated.v)

\* sequences.truncate(item_count - self.items.len() + 1) in usize arithmetic.
\* With overflow checks the subtraction aborts when item_count < len.  Without
\* them it wraps modulo 2^64: a difference of -1 gives 2^64 - 1 and the +1 wraps
\* again to 0; a difference -d with d >= 2 gives 2^64 - d + 1, which is larger
\* than the length of any vector, so truncate leaves the vector alone.
truncate(cands, item_count, len, b) ==
    IF item_count >= len
    THEN Val(SubSeq(cands, 1, IF Len(cands) < item_count - len + 1
                              THEN Len(cands) ELSE item_count - len + 1))
    ELSE IF b = "debug" THEN Panic
    ELSE IF len - item_count = 1 THEN Val(<<>>)
    ELSE Val(cands)

\* Sequence::is_matched: "true", "false", or "panic" when the call aborts
is_matched(pattern, strm, b) ==
    LET cands == scan(pattern, strm, 0, <<>>)
    IN IF cands.panic THEN "panic"
       ELSE LET kept == truncate(cands.v, Len(strm), Len(pattern), b)
            IN IF kept.panic THEN "panic"
               ELSE IF \E p \in 1..Len(kept.v) : kept.v[p] THEN "true" ELSE "false"

InitSequence ==
    /\ items \in SeqsUpTo(Tokens, MaxPattern)
    /\ stream \in SeqsUpTo(Tokens, MaxStream)
    /\ matched = "pending"

IsMatched ==
    /\ matched = "pending"
    /\ matched' = is_matched(items, stream, build)
    /\ UNCHANGED <<items, stream, internerVars, matrixVars, solveVars, pc, build>>

----------------------------------------------------------------------------
\* Matrix (matrix.rs) over Grid (grid.rs)

MaxWidth  == 2    \* boards are 1..MaxWidth wide
MaxHeight == 2    \* boards are 1..MaxHeight high
MaxDepth  == 3    \* callers stop calling select on a stack of MaxDepth coordinates

\* enum Active
Row(r) == [kind |-> "Row", n |-> r]
Column(c) == [kind |-> "Column", n |-> c]

\* Grid::idx is Some: the coordinates a Grid<_, w, h> holds
Cells(w, h) == (0..(w - 1)) \X (0..(h - 1))

\* Matrix::check_bounds is Ok
check_bounds(x, y) == x < WIDTH /\ y < HEIGHT

\* A faulty toggle: the new line is taken through the wrong axis of the point
toggle_transposed(a, x, y) ==
    IF a.kind = "Row"
    THEN (IF y # a.n THEN [ok |-> FALSE, active |-> a] ELSE [ok |-> TRUE, active |-> Column(y)])
    ELSE (IF x # a.n THEN [ok |-> FALSE, active |-> a] ELSE [ok |-> TRUE, active |-> Row(x)])

\* Active::toggle: Ok(new active) or Err(NotActive)
toggle(a, x, y) ==
    IF a.kind = "Row"
    THEN (IF y # a.n THEN [ok |-> FALSE, active |-> a] ELSE [ok |-> TRUE, active |-> Column(x)])
    ELSE (IF x # a.n THEN [ok |-> FALSE, active |-> a] ELSE [ok |-> TRUE, active |-> Row(y)])

\* The mutable part of a Matrix as one value
Matrix == [chosen |-> chosen, selections |-> selections, active |-> active]

\* A faulty select: the chosen flag is written before the active line is
\* consulted, so a NotActive failure leaves the flag set
select_marks_first(m, x, y) ==
    IF ~check_bounds(x, y) THEN [res |-> "OutOfBounds", m |-> m]
    ELSE IF m.chosen[<<x, y>>] THEN [res |-> "AlreadySelected", m |-> m]
    ELSE LET t == toggle(m.active, x, y)
             marked == [m EXCEPT !.chosen[<<x, y>>] = TRUE]
         IN IF ~t.ok THEN [res |-> "NotActive", m |-> marked]
            ELSE [res |-> "Ok",
                  m |-> [chosen |-> marked.chosen,
                         selections |-> Append(m.selections, <<x, y>>),
                         active |-> t.active]]

\* A faulty select: the active line is consulted before the chosen flag
select_active_first(m, x, y) ==
    IF ~check_bounds(x, y) THEN [res |-> "OutOfBounds", m |-> m]
    ELSE LET t == toggle(m.active, x, y)
         IN IF ~t.ok THEN [res |-> "NotActive", m |-> m]
            ELSE IF m.chosen[<<x, y>>] THEN [res |-> "AlreadySelected", m |-> m]
            ELSE [res |-> "Ok",
                  m |-> [chosen |-> [m.chosen EXCEPT ![<<x, y>>] = TRUE],
                         selections |-> Append(m.selections, <<x, y>>),
                         active |-> t.active]]

\* Matrix::select on matrix m: the result and the matrix after the call
select(m, x, y) ==
    IF ~check_bounds(x, y) THEN [res |-> "OutOfBounds", m |-> m]
    ELSE IF m.chosen[<<x, y>>] THEN [res |-> "AlreadySelected", m |-> m]
    ELSE LET t == toggle(m.active, x, y)
         IN IF ~t.ok THEN [res |-> "NotActive", m |-> m]
            ELSE [res |-> "Ok",
                  m |-> [chosen |-> [m.chosen EXCEPT ![<<x, y>>] = TRUE],
                         selections |-> Append(m.selections, <<x, y>>),
                         active |-> t.active]]

\* A faulty deselect: the chosen flag of the popped coordinate is left set
deselect_keeps_flag(m, b) ==
    IF m.selections = <<>> THEN [res |-> "Empty", m |-> m]
    ELSE LET xy == Last(m.selections)
             popped == [m EXCEPT !.selections = Front(m.selections)]
         IN IF b = "debug" /\ ~m.chosen[xy] THEN [res |-> "panic", m |-> popped]
            ELSE IF ~toggle(m.active, xy[1], xy[2]).ok THEN [res |-> "panic", m |-> popped]
            ELSE [res |-> "Ok", m |-> popped]

\* Matrix::deselect on matrix m.  The value of toggle is only handed to expect:
\* nothing is assigned to self.active.  debug_assert! is compiled in debug
\* builds only.  An abort leaves what was written before it.
deselect(m, b) ==
    IF m.selections = <<>> THEN [res |-> "Empty", m |-> m]
    ELSE LET xy == Last(m.selections)
             popped == [m EXCEPT !.selections = Front(m.selections)]
             cleared == [popped EXCEPT !.chosen[xy] = FALSE]
         IN IF b = "debug" /\ ~m.chosen[xy] THEN [res |-> "panic", m |-> popped]
            ELSE IF ~toggle(m.active, xy[1], xy[2]).ok THEN [res |-> "panic", m |-> cleared]
            ELSE [res |-> "Ok", m |-> cleared]

\* A legal_selections() iterator: the captured active line and the next value of `0..`
legal_selections(m) == [active |-> m.active, t |-> 0]

\* the coordinate the `map` closure of legal_selections makes of t
coordinate(a, t) == IF a.kind = "Row" THEN <<t, a.n>> ELSE <<a.n, t>>

\* One next() on a legal_selections() iterator `it`.  The filter draws from `0..`
\* until a coordinate is in bounds; t >= WIDTH and t >= HEIGHT is never in bounds,
\* so past the last in-bounds coordinate the filter draws until `0..` overflows
\* usize: an abort with overflow checks, a wrap to 0 without them.
next(it, b) ==
    LET inb(from) == {t \in from..((IF WIDTH > HEIGHT THEN WIDTH ELSE HEIGHT) - 1) :
                        check_bounds(coordinate(it.active, t)[1], coordinate(it.active, t)[2])}
        min(S) == CHOOSE t \in S : \A u \in S : t <= u
    IN IF inb(it.t) # {}
       THEN [res |-> "Some", item |-> coordinate(it.active, min(inb(it.t))),
             it |-> [it EXCEPT !.t = min(inb(it.t)) + 1]]
       ELSE IF b = "debug" THEN [res |-> "panic", item |-> <<0, 0>>, it |-> it]
       ELSE IF inb(0) # {}
       THEN [res |-> "Some", item |-> coordinate(it.active, min(inb(0))),
             it |-> [it EXCEPT !.t = min(inb(0)) + 1]]
       ELSE [res |-> "hang", item |-> <<0, 0>>, it |-> it]

\* The coordinates a legal_selections() iterator yields before `0..` overflows
RECURSIVE yields(_)
yields(it) ==
    LET n == next(it, "debug")
    IN IF n.res = "Some" THEN <<n.item>> \o yields(n.it) ELSE <<>>

\* A board for the calls on a Matrix alone, which never look at the cell values
\* but to return one: the tokens laid out row-major, cyclically
InitValues == values = [c \in Cells(WIDTH, HEIGHT) |-> 1 + ((c[2] * WIDTH + c[1]) % NumTokens)]

\* Any board over the tokens
InitAnyValues == values \in [Cells(WIDTH, HEIGHT) -> Tokens]

InitMatrix ==
    /\ WIDTH \in 1..MaxWidth
    /\ HEIGHT \in 1..MaxHeight
    /\ chosen = [c \in Cells(WIDTH, HEIGHT) |-> FALSE]
    /\ selections = <<>>
    /\ active = Row(0)
    /\ mlast = [op |-> "new", x |-> 0, y |-> 0, res |-> "Ok", pre |-> Matrix]

\* a caller calls select(x, y); the coordinates include one value out of bounds per axis
Select ==
    /\ pc = "ready"
    /\ Len(selections) < MaxDepth
    /\ \E x \in 0..WIDTH, y \in 0..HEIGHT :
         LET r == select(Matrix, x, y)
         IN /\ chosen' = r.m.chosen
            /\ selections' = r.m.selections
            /\ active' = r.m.active
            /\ mlast' = [op |-> "select", x |-> x, y |-> y, res |-> r.res, pre |-> Matrix]
    /\ UNCHANGED <<WIDTH, HEIGHT, values, pc>>
    /\ UNCHANGED <<internerVars, sequenceVars, solveVars, build>>

\* a caller calls deselect()
Deselect ==
    /\ pc = "ready"
    /\ LET r == deselect(Matrix, build)
       IN /\ chosen' = r.m.chosen
          /\ selections' = r.m.selections
          /\ active' = r.m.active
          /\ mlast' = [op |-> "deselect", x |-> 0, y |-> 0, res |-> r.res, pre |-> Matrix]
          /\ pc' = IF r.res = "panic" THEN "panic_deselect" ELSE "ready"
    /\ UNCHANGED <<WIDTH, HEIGHT, values>>
    /\ UNCHANGED <<internerVars, sequenceVars, solveVars, build>>

----------------------------------------------------------------------------
\* BreachProtocol::solve (lib.rs)

MaxBuffer    == 2    \* buffer_size ranges over 0..MaxBuffer
MaxTarget    == 1    \* longest target pattern handed to solve
MaxSequences == 1    \* longest list of target sequences handed to solve
MaxCells     == 4    \* boards handed to solve have at most MaxCells cells
MaxSolutions == 3    \* solutions collected before the model stops following a run

\* Matrix::selected_values
selected_values(m) == [i \in 1..Len(m.selections) |-> values[m.selections[i]]]

\* the filter_map(..).collect() of the leaf: the indices, in order, of the
\* sequences of seqs[from..] that is_matched accepts
RECURSIVE collect_matches(_, _, _, _)
collect_matches(seqs, idx, buffer, b) ==
    IF idx >= Len(seqs) THEN <<>>
    ELSE (IF is_matched(seqs[idx + 1], buffer, b) = "true" THEN <<idx>> ELSE <<>>)
         \o collect_matches(seqs, idx + 1, buffer, b)

\* some is_matched call of the leaf aborts
leaf_panics(seqs, buffer, b) ==
    \E i \in 1..Len(seqs) : is_matched(seqs[i], buffer, b) = "panic"

\* struct Solution
Solution(buffer, matches) == [buffer |-> buffer, matches |-> matches]

PanicStates == {"panic_select", "panic_deselect", "panic_is_matched", "panic_overflow"}

InitSolve ==
    /\ WIDTH * HEIGHT <= MaxCells
    /\ buffer_size \in 0..MaxBuffer
    /\ sequences \in SeqsUpTo(SeqsUpTo(Tokens, MaxTarget), MaxSequences)
    /\ solutions = <<>>
    /\ frames = <<>>

\* solve: `let mut solutions = Vec::new()` and the call of solve_inner
Solve ==
    /\ pc = "call"
    /\ solutions' = <<>>
    /\ pc' = "enter"
    /\ UNCHANGED <<matrixVars, buffer_size, sequences, frames>>
    /\ UNCHANGED <<internerVars, sequenceVars, build>>

\* solve_inner with depth < buffer_size: legal_selections() is called and the
\* for loop over it starts
SolveInnerBranch ==
    /\ pc = "enter"
    /\ Len(selections) < buffer_size
    /\ frames' = Append(frames, legal_selections(Matrix))
    /\ pc' = "loop"
    /\ UNCHANGED <<matrixVars, buffer_size, sequences, solutions>>
    /\ UNCHANGED <<internerVars, sequenceVars, build>>

\* A faulty leaf: the sequences are evaluated at any depth
SolveInnerLeaf_any_depth ==
    /\ pc = "enter"
    /\ Len(solutions) < MaxSolutions
    /\ LET buffer == selected_values(Matrix)
           matches == collect_matches(sequences, 0, buffer, build)
       IN IF leaf_panics(sequences, buffer, build)
          THEN pc' = "panic_is_matched" /\ UNCHANGED solutions
          ELSE /\ pc' = "return"
               /\ solutions' = IF matches # <<>>
                               THEN Append(solutions, Solution(buffer, matches))
                               ELSE solutions
    /\ UNCHANGED <<matrixVars, buffer_size, sequences, frames>>
    /\ UNCHANGED <<internerVars, sequenceVars, build>>

\* solve_inner with depth >= buffer_size: the leaf
SolveInnerLeaf ==
    /\ pc = "enter"
    /\ Len(selections) >= buffer_size
    /\ Len(solutions) < MaxSolutions
    /\ LET buffer == selected_values(Matrix)
           matches == collect_matches(sequences, 0, buffer, build)
       IN IF leaf_panics(sequences, buffer, build)
          THEN pc' = "panic_is_matched" /\ UNCHANGED solutions
          ELSE /\ pc' = "return"
               /\ solutions' = IF matches # <<>>
                               THEN Append(solutions, Solution(buffer, matches))
                               ELSE solutions
    /\ UNCHANGED <<matrixVars, buffer_size, sequences, frames>>
    /\ UNCHANGED <<internerVars, sequenceVars, build>>

\* one turn of the for loop: next() on the iterator of the innermost level, then
\* matrix.select(x, y).expect("legal selection remained legal") and the
\* recursive call.  next() never returns None (see next), so the loop has no exit.
LoopNext ==
    /\ pc = "loop"
    /\ LET n == next(Last(frames), build)
           r == select(Matrix, n.item[1], n.item[2])
       IN IF n.res # "Some"
          THEN /\ pc' = IF n.res = "panic" THEN "panic_overflow" ELSE "hang"
               /\ UNCHANGED <<chosen, selections, active, mlast, frames>>
          ELSE /\ frames' = [frames EXCEPT ![Len(frames)] = n.it]
               /\ chosen' = r.m.chosen
               /\ selections' = r.m.selections
               /\ active' = r.m.active
               /\ mlast' = [op |-> "select", x |-> n.item[1], y |-> n.item[2],
                            res |-> r.res, pre |-> Matrix]
               /\ pc' = IF r.res = "Ok" THEN "enter" ELSE "panic_select"
    /\ UNCHANGED <<WIDTH, HEIGHT, values, buffer_size, sequences, solutions>>
    /\ UNCHANGED <<internerVars, sequenceVars, build>>

\* the recursive call returns into the loop body: matrix.deselect()
ReturnToLoop ==
    /\ pc = "return"
    /\ frames # <<>>
    /\ LET r == deselect(Matrix, build)
       IN /\ chosen' = r.m.chosen
          /\ selections' = r.m.selections
          /\ active' = r.m.active
          /\ mlast' = [op |-> "deselect", x |-> 0, y |-> 0, res |-> r.res, pre |-> Matrix]
          /\ pc' = IF r.res = "panic" THEN "panic_deselect" ELSE "loop"
    /\ UNCHANGED <<WIDTH, HEIGHT, values, buffer_size, sequences, solutions, frames>>
    /\ UNCHANGED <<internerVars, sequenceVars, build>>

\* the outermost solve_inner returns and solve hands back `solutions`
SolveReturn ==
    /\ pc = "return"
    /\ frames = <<>>
    /\ pc' = "done"
    /\ UNCHANGED <<matrixVars, solveVars>>
    /\ UNCHANGED <<internerVars, sequenceVars, build>>

----------------------------------------------------------------------------
\* Specifications.  Each one runs one component; the variables of the other
\* components stay at the values below.

IdleInterner == store = <<>> /\ gen = 0 /\ ilast = <<>>
IdleSequence == items = <<>> /\ stream = <<>> /\ matched = "unused"
IdleMatrix ==
    /\ WIDTH = 0 /\ HEIGHT = 0 /\ values = <<>> /\ chosen = <<>>
    /\ selections = <<>> /\ active = Row(0) /\ mlast = <<>>
IdleSolve == buffer_size = 0 /\ sequences = <<>> /\ solutions = <<>> /\ frames = <<>>

\* any sequence of insert and extend calls on a new Interner
NextInterner == Insert \/ Extend \/ Get
StartInterner ==
    /\ InitInterner /\ IdleSequence /\ IdleMatrix /\ IdleSolve
    /\ pc = "ready" /\ build \in Builds
SpecInterner == StartInterner /\ [][NextInterner]_vars

\* one is_matched call on any pattern and stream
NextSequence == IsMatched
StartSequence ==
    /\ InitSequence /\ IdleInterner /\ IdleMatrix /\ IdleSolve
    /\ pc = "ready" /\ build \in Builds
SpecSequence == StartSequence /\ [][NextSequence]_vars

\* any sequence of select and deselect calls on a new Matrix
NextMatrix == Select \/ Deselect
StartMatrix ==
    /\ InitMatrix /\ InitValues /\ IdleInterner /\ IdleSequence /\ IdleSolve
    /\ pc = "ready" /\ build \in Builds
SpecMatrix == StartMatrix /\ [][NextMatrix]_vars

\* one solve call on a new Matrix
NextSolve ==
    \/ Solve
    \/ SolveInnerBranch
    \/ SolveInnerLeaf
    \/ LoopNext
    \/ ReturnToLoop
    \/ SolveReturn
StartSolve ==
    /\ InitMatrix /\ InitSolve /\ InitAnyValues /\ IdleInterner /\ IdleSequence
    /\ pc = "call" /\ build \in Builds
SpecSolve == StartSolve /\ [][NextSolve]_vars

\* one solve call that keeps running while it has a step to take: the search
\* is a single synchronous call stack, nothing else can hold it up
SpecSolveFair == StartSolve /\ [][NextSolve]_vars /\ WF_vars(NextSolve)

----------------------------------------------------------------------------
\* Properties of Matrix::select and Matrix::deselect (SpecMatrix)

\* the active line a passes through (x, y)
OnLine(a, x, y) == IF a.kind = "Row" THEN y = a.n ELSE x = a.n

\* the line orthogonal to a through (x, y)
Orthogonal(a, x, y) == IF a.kind = "Row" THEN Column(x) ELSE Row(y)

\* C1: a deselect() that immediately follows a successful select(x, y) restores
\* the chosen flags, the selection stack and the Active Line to their values
\* before that select.
C1_DeselectRestores ==
    [][(mlast.op = "select" /\ mlast.res = "Ok" /\ mlast'.op = "deselect")
        => (chosen' = mlast.pre.chosen /\ selections' = mlast.pre.selections
            /\ active' = mlast.pre.active)]_vars

\* the outcome C2 states for select(x, y) on matrix m
C2_StatedOutcome(m, x, y) ==
    IF ~(x < WIDTH /\ y < HEIGHT) THEN "OutOfBounds"
    ELSE IF ~OnLine(m.active, x, y) THEN "NotActive"
    ELSE IF m.chosen[<<x, y>>] THEN "AlreadySelected"
    ELSE "Ok"

C2_AmendedOutcome(m, x, y) ==
    IF ~(x < WIDTH /\ y < HEIGHT) THEN "OutOfBounds"
    ELSE IF m.chosen[<<x, y>>] THEN "AlreadySelected"
    ELSE IF ~OnLine(m.active, x, y) THEN "NotActive"
    ELSE "Ok"

C3_SelectEffect ==
    (mlast.op = "select" /\ mlast.res = "Ok") =>
        /\ ~mlast.pre.chosen[<<mlast.x, mlast.y>>]
        /\ chosen = [mlast.pre.chosen EXCEPT ![<<mlast.x, mlast.y>>] = TRUE]
        /\ selections = Append(mlast.pre.selections, <<mlast.x, mlast.y>>)
        /\ active = Orthogonal(mlast.pre.active, mlast.x, mlast.y)
        /\ (mlast.pre.selections = <<>> /\ mlast.pre.active = Row(0))
              => (mlast.y = 0 /\ active = Column(mlast.x))
        /\ (Len(mlast.pre.selections) = 1 /\ mlast.pre.active = Column(mlast.x))
              => active = Row(mlast.y)

\* the second select of a run, (x, y2) after (x, 0), has succeeded
C3_Witness ==
    /\ mlast.op = "select" /\ mlast.res = "Ok"
    /\ Len(selections) = 2
    /\ selections[1][2] = 0
    /\ selections[2][1] = selections[1][1]
    /\ mlast.pre.active = Column(mlast.x)
    /\ active = Row(mlast.y)

\* the results with which select fails
SelectErrors == {"OutOfBounds", "AlreadySelected", "NotActive"}

\* C21: a select(x, y) that fails with OutOfBounds, AlreadySelected or NotActive
\* leaves the Matrix as it was before the call: the same chosen flags, the same
\* selection stack and the same Active Line.
C21_FailedSelectKeepsMatrix ==
    (mlast.op = "select" /\ mlast.res \in SelectErrors) =>
        /\ chosen = mlast.pre.chosen
        /\ selections = mlast.pre.selections
        /\ active = mlast.pre.active

\* a select of a cell that is not chosen and off the Active Line has failed on
\* a Matrix holding two selections
C21_Witness ==
    /\ mlast.op = "select"
    /\ mlast.res = "NotActive"
    /\ Len(mlast.pre.selections) = 2
    /\ ~mlast.pre.chosen[<<mlast.x, mlast.y>>]

\* Legal move: in bounds, on the Active Line and not yet chosen
LegalMoves(m) ==
    {c \in Cells(WIDTH, HEIGHT) : OnLine(m.active, c[1], c[2]) /\ ~m.chosen[c]}

\* the varying axis of a coordinate on line a
Varying(a, c) == IF a.kind = "Row" THEN c[1] ELSE c[2]

\* C4: legal_selections() yields exactly the legal moves (in bounds, on the
\* Active Line, chosen flag not set), each once, in increasing order of the
\* varying axis.
C4_LegalSelectionsAreLegal ==
    pc = "ready" =>
        LET ys == yields(legal_selections(Matrix))
        IN /\ Range(ys) = LegalMoves(Matrix)
           /\ \A i, j \in 1..Len(ys) :
                 i < j => Varying(active, ys[i]) < Varying(active, ys[j])

\* C11: in every Matrix state reached by select and deselect calls, failed
\* calls included, the length of the selection stack equals the number of cells
\* whose chosen flag is true, and no coordinate appears twice in the stack.
C11_StackMatchesFlags ==
    /\ Len(selections) = Cardinality({c \in Cells(WIDTH, HEIGHT) : chosen[c]})
    /\ \A i, j \in 1..Len(selections) : i # j => selections[i] # selections[j]

\* a select of a chosen cell has failed on a stack of two coordinates
C11_Witness ==
    /\ Len(selections) = 2
    /\ mlast.op = "select" /\ mlast.res = "AlreadySelected"
    /\ Cardinality({c \in Cells(WIDTH, HEIGHT) : chosen[c]}) = 2

\* the Active Line the toggle rule gives for selection stack s
ActiveOf(s) ==
    IF s = <<>> THEN Row(0)
    ELSE IF Len(s) % 2 = 1 THEN Column(Last(s)[1]) ELSE Row(Last(s)[2])

\* C12: in every Matrix state reached by select and deselect calls the Active
\* Line is the one the selection stack determines: Row(0) for the empty stack,
\* else, with (x, y) the top of the stack, Column(x) for an odd stack length and
\* Row(y) for an even one.
C12_ActiveFollowsStack == active = ActiveOf(selections)

\* C19: in every Matrix state reached by select and deselect calls the
\* selection stack is a legal game path: the first coordinate lies in row 0 and
\* each later one shares the column of its predecessor at the 2nd, 4th, ...
\* position and the row of its predecessor at the 3rd, 5th, ... position.
C19_StackIsLegalPath ==
    /\ selections # <<>> => selections[1][2] = 0
    /\ \A i \in 2..Len(selections) :
          IF i % 2 = 0 THEN selections[i][1] = selections[i - 1][1]
                       ELSE selections[i][2] = selections[i - 1][2]

\* C20: in every Matrix state reached by successful selects and deselects,
\* several deselects in a row included, deselect() completes without aborting:
\* neither "point must already have been selected" nor "toggle must be valid at
\* this point" fails.
C20_DeselectNeverAborts == pc # "panic_deselect"

----------------------------------------------------------------------------
\* Properties of BreachProtocol::solve (SpecSolve)

\* C5: during solve every coordinate taken from a legal_selections()
\* enumeration is accepted by select: the expectation "legal selection remained
\* legal" never fails.
C5_LegalSelectionRemainsLegal == pc # "panic_select"

\* pattern occurs in strm as a contiguous run; an empty pattern never matches
Contains(pattern, strm) ==
    /\ pattern # <<>>
    /\ \E o \in 0..(Len(strm) - Len(pattern)) :
          \A j \in 1..Len(pattern) : strm[o + j] = pattern[j]

\* the legal buffers of length n as coordinate paths: pairwise distinct cells,
\* the first in row 0, then alternately in the column and in the row of the
\* cell before
LegalPaths(n) ==
    {p \in [1..n -> Cells(WIDTH, HEIGHT)] :
        /\ \A i, j \in 1..n : i # j => p[i] # p[j]
        /\ n >= 1 => p[1][2] = 0
        /\ \A i \in 2..n : IF i % 2 = 0 THEN p[i][1] = p[i - 1][1]
                                         ELSE p[i][2] = p[i - 1][2]}

\* the indices, in order, of the sequences of seqs[idx..] contained in buffer
RECURSIVE ContainedFrom(_, _, _)
ContainedFrom(seqs, idx, buffer) ==
    IF idx >= Len(seqs) THEN <<>>
    ELSE (IF Contains(seqs[idx + 1], buffer) THEN <<idx>> ELSE <<>>)
         \o ContainedFrom(seqs, idx + 1, buffer)

\* the Solution the path p stands for
SolutionOf(p) ==
    LET buffer == [i \in 1..Len(p) |-> values[p[i]]]
    IN Solution(buffer, ContainedFrom(sequences, 0, buffer))

\* the legal paths that realise at least one sequence
MatchingPaths == {p \in LegalPaths(buffer_size) : SolutionOf(p).matches # <<>>}

\* solve returns, and returns one Solution for exactly each legal buffer of
\* length buffer_size that contains at least one target sequence, with matches
\* the indices of the sequences it contains; nothing else is ever collected
C6_SolveEnumeratesLegalBuffers ==
    /\ pc \notin PanicStates /\ pc # "hang"
    /\ \A i \in 1..Len(solutions) :
          Cardinality({j \in 1..Len(solutions) : solutions[j] = solutions[i]})
             <= Cardinality({p \in MatchingPaths : SolutionOf(p) = solutions[i]})
    /\ pc = "done" =>
          \A q \in MatchingPaths :
             Cardinality({j \in 1..Len(solutions) : solutions[j] = SolutionOf(q)})
                = Cardinality({p \in MatchingPaths : SolutionOf(p) = SolutionOf(q)})

\* C6, on its own example: on a 1x1 board with buffer_size 1 and one one-token
\* sequence equal to the cell, solve returns exactly one Solution, with
\* matches = [0].
C6_SingleCellBoard ==
    (WIDTH = 1 /\ HEIGHT = 1 /\ buffer_size = 1 /\ sequences = <<<<values[<<0, 0>>]>>>>)
        => /\ C6_SolveEnumeratesLegalBuffers
           /\ pc = "done" => solutions = <<Solution(<<values[<<0, 0>>]>>, <<0>>)>>

\* C15: every Solution solve collects has a buffer of length exactly
\* buffer_size and a non-empty matches list; the target sequences are evaluated
\* only at selection depth buffer_size, so no branch that ends below that depth
\* collects a Solution.
C15_OnlyFullBuffers ==
    /\ \A i \in 1..Len(solutions) :
          /\ Len(solutions[i].buffer) = buffer_size
          /\ solutions[i].matches # <<>>
    /\ pc \in {"return", "panic_is_matched"} => Len(selections) = buffer_size

\* a Solution has been collected at depth buffer_size >= 1
C15_Witness ==
    /\ buffer_size >= 1
    /\ pc = "return"
    /\ solutions # <<>>
    /\ Last(solutions).buffer = selected_values(Matrix)

\* C17: every call to solve eventually returns, because the legal_selections()
\* enumeration of each level reports exhaustion after at most max(WIDTH, HEIGHT)
\* coordinates; stated for the smallest search, a 1x1 board with buffer_size 1
\* and no target sequence.
C17_SolveReturns ==
    (WIDTH = 1 /\ HEIGHT = 1 /\ buffer_size = 1 /\ sequences = <<>>) => <>(pc = "done")

----------------------------------------------------------------------------
\* Properties of Sequence::is_matched (SpecSequence)

\* C7: for a non-empty pattern of length L and a stream of length N >= L,
\* is_matched returns true iff the pattern occurs in the stream at an offset
\* 0 <= o <= N - L, and false otherwise.
C7_MatchesContiguousRun ==
    (matched \notin {"pending", "unused"} /\ items # <<>> /\ Len(stream) >= Len(items))
        => matched = (IF Contains(items, stream) THEN "true" ELSE "false")

\* C8: is_matched returns false, without aborting, for an empty pattern and for
\* a stream shorter than the pattern.
C8_DegenerateInputsNeverMatch ==
    (matched \notin {"pending", "unused"} /\ (items = <<>> \/ Len(stream) < Len(items)))
        => matched = "false"

\* pattern occurs in strm at an offset that leaves further tokens after the run
OccursBeforeTail(pattern, strm) ==
    \E o \in 0..(Len(strm) - Len(pattern) - 1) :
        \A j \in 1..Len(pattern) : strm[o + j] = pattern[j]

\* C18: for a non-empty pattern of length L and a stream of length N >= L, every
\* candidate update reads the pattern at an index below L, so is_matched
\* completes without aborting, and it returns true when the pattern occurs at
\* an offset o < N - L.
C18_UpdatesStayInPattern ==
    (matched \notin {"pending", "unused"} /\ items # <<>> /\ Len(stream) >= Len(items))
        => /\ matched # "panic"
           /\ OccursBeforeTail(items, stream) => matched = "true"

----------------------------------------------------------------------------
\* Properties of the Interner (SpecInterner)

\* C9: after any sequence of insert and extend calls the backing sequence is
\* strictly ascending: sorted and free of duplicates.
C9_StoreStrictlyAscending ==
    \A i \in 1..(Len(store) - 1) : Cmp(store[i], store[i + 1]) = "Less"

\* the store after inserting the elements of batch one by one
RECURSIVE InsertEach(_, _)
InsertEach(s, batch) ==
    IF batch = <<>> THEN s ELSE InsertEach(insert_store(s, Head(batch)), Tail(batch))

KeysOf(s) == {s[i].key : i \in 1..Len(s)}

\* C10: extend(batch) leaves a store set-equal to the one that inserting the
\* batch elements one by one leaves, and for a value that compares equal to one
\* already in the store the entry kept is the pre-existing one, never the
\* incoming one.
C10_ExtendEqualsInserts ==
    ilast.op = "extend" =>
        /\ KeysOf(store) = KeysOf(InsertEach(ilast.pre, ilast.arg))
        /\ \A i \in 1..Len(store) :
              store[i].key \in KeysOf(ilast.pre) => store[i] \in Range(ilast.pre)

\* the value a token with index idx of store s dereferences to compares equal to v
DerefsTo(s, idx, v) == idx < Len(s) /\ Cmp(s[idx + 1], v) = "Equal"

\* C16: get(v) right after insert(v) returns the token insert returned, and it
\* dereferences to v; insert(v) called twice in a row returns the same token
\* both times and leaves the store unchanged the second time; get(v) returns
\* nothing when v is not in the store.
C16_GetAndInsertAgree ==
    /\ [](ilast.op = "get" =>
            /\ ilast.idxs = {} <=> ilast.arg[1].key \notin KeysOf(store)
            /\ \A i \in ilast.idxs : DerefsTo(store, i, ilast.arg[1]))
    /\ [][(ilast.op = "insert" /\ ilast'.op \in {"get", "insert"}
             /\ Cmp(ilast'.arg[1], ilast.arg[1]) = "Equal")
          => /\ store' = store
             /\ ilast'.idxs = ilast.idxs
             /\ ilast'.idxs # {}
             /\ \A i \in ilast'.idxs : DerefsTo(store', i, ilast.arg[1])]_vars

\* get(v) has found the value that the latest insert or extend brought in, at
\* an index other than 0
C16_Witness ==
    /\ ilast.op = "get"
    /\ ilast.idxs # {}
    /\ \E i \in ilast.idxs : i > 0 /\ store[i + 1].gen = gen

====
